---- MODULE Spec2Model ----
(***************************************************************************)
(* Model of src/main.py: three Bitbucket read-through tools                *)
(* (get_pull_requests, get_pull_requests_changes, get_file_diff), their    *)
(* HTTP GET routes, and the shared pooled httpx client.                    *)
(*                                                                         *)
(* Text is modelled at character level: a string is a sequence of          *)
(* one-character strings, so that prefixes, embedded status codes, URL     *)
(* delimiters and blank-line separators are all observable.                *)
(***************************************************************************)
EXTENDS Integers, Sequences, FiniteSets, TLC

VARIABLES
    pc,        \* "idle" | "awaiting" | "done": position of the one modelled invocation
    via,       \* "tool" (MCP tool call) | "route" (HTTP GET route) | "none"
    call,      \* the invocation: tool name, arguments and process environment
    world,     \* how the network is disposed to answer this invocation's GET
    request,   \* the outbound GET handed to httpx_client.get, or NoRequest
    upstream,  \* what the network answered the GET with, or NoAnswer
    result,    \* what the tool coroutine ended with: a returned string or a raised exception
    http,      \* the HTTP response the route sent to its client, or NoHttp
    pool       \* per-call state of concurrent invocations on the shared client (SpecPool)

vars == <<pc, via, call, world, request, upstream, result, http, pool>>

-----------------------------------------------------------------------------
(* Bounds of the model *)

\* longest upstream `values` array
MaxItems == 2
\* pull request ids range over 1..MaxPullRequestId
MaxPullRequestId == 2
\* number of concurrent invocations in SpecPool
NumCalls == 11

-----------------------------------------------------------------------------
(* Character-level text *)

Digits == <<"0","1","2","3","4","5","6","7","8","9">>

IsDigit(c) == \E i \in 1..10 : Digits[i] = c

\* Python str(int) / f"{int}" for a non-negative integer: decimal, no padding
RECURSIVE str(_)
str(n) == IF n < 10 THEN <<Digits[n + 1]>>
          ELSE str(n \div 10) \o <<Digits[(n % 10) + 1]>>

\* needle occurs in hay as a contiguous substring
Contains(hay, needle) ==
    \E i \in 0..(Len(hay) - Len(needle)) :
        SubSeq(hay, i + 1, i + Len(needle)) = needle

\* Python sep.join(parts)
RECURSIVE join(_, _)
join(sep, parts) ==
    IF Len(parts) = 0 THEN <<>>
    ELSE IF Len(parts) = 1 THEN parts[1]
    ELSE parts[1] \o sep \o join(sep, Tail(parts))

NL == <<"\n">>

\* 'None'
L_None ==
    <<"N","o","n","e">>
\* '/rest/api/1.0/projects/'
L_rest_projects ==
    <<"/","r","e","s","t","/","a","p","i","/","1",".","0","/","p","r","o","j","e","c","t","s","/">>
\* '/repos/'
L_repos ==
    <<"/","r","e","p","o","s","/">>
\* '/pull-requests?state='
L_pull_requests_state ==
    <<"/","p","u","l","l","-","r","e","q","u","e","s","t","s","?","s","t","a","t","e","=">>
\* 'OPEN'
L_OPEN ==
    <<"O","P","E","N">>
\* '&start='
L_amp_start_eq ==
    <<"&","s","t","a","r","t","=">>
\* '&limit='
L_amp_limit_eq ==
    <<"&","l","i","m","i","t","=">>
\* '/pull-requests/'
L_pull_requests_slash ==
    <<"/","p","u","l","l","-","r","e","q","u","e","s","t","s","/">>
\* '/changes?start'
L_changes_start ==
    <<"/","c","h","a","n","g","e","s","?","s","t","a","r","t">>
\* '&limit'
L_amp_limit ==
    <<"&","l","i","m","i","t">>
\* '/diff/'
L_diff_slash ==
    <<"/","d","i","f","f","/">>
\* 'application/json'
L_application_json ==
    <<"a","p","p","l","i","c","a","t","i","o","n","/","j","s","o","n">>
\* 'text/plain'
L_text_plain ==
    <<"t","e","x","t","/","p","l","a","i","n">>
\* 'Basic '
L_Basic ==
    <<"B","a","s","i","c"," ">>
\* 'No pull requests found.'
L_no_pull_requests ==
    <<"N","o"," ","p","u","l","l"," ","r","e","q","u","e","s","t","s"," ","f","o","u","n","d",".">>
\* 'No changes found in the pull request.'
L_no_changes ==
    <<"N","o"," ","c","h","a","n","g","e","s"," ","f","o","u","n","d"," ","i","n"," ","t","h","e"," ","p","u","l","l"," ","r","e","q","u","e","s","t",".">>
\* 'ID: '
L_ID ==
    <<"I","D",":"," ">>
\* 'Title: '
L_Title ==
    <<"T","i","t","l","e",":"," ">>
\* 'State: '
L_State ==
    <<"S","t","a","t","e",":"," ">>
\* 'Author: '
L_Author ==
    <<"A","u","t","h","o","r",":"," ">>
\* 'File: '
L_File ==
    <<"F","i","l","e",":"," ">>
\* 'Type: '
L_Type ==
    <<"T","y","p","e",":"," ">>
\* 'Error fetching pull requests: '
L_err_fetching_prs ==
    <<"E","r","r","o","r"," ","f","e","t","c","h","i","n","g"," ","p","u","l","l"," ","r","e","q","u","e","s","t","s",":"," ">>
\* 'Error processing pull requests: '
L_err_processing_prs ==
    <<"E","r","r","o","r"," ","p","r","o","c","e","s","s","i","n","g"," ","p","u","l","l"," ","r","e","q","u","e","s","t","s",":"," ">>
\* 'Error fetching pull request changes: '
L_err_fetching_changes ==
    <<"E","r","r","o","r"," ","f","e","t","c","h","i","n","g"," ","p","u","l","l"," ","r","e","q","u","e","s","t"," ","c","h","a","n","g","e","s",":"," ">>
\* 'Error processing pull request changes: '
L_err_processing_changes ==
    <<"E","r","r","o","r"," ","p","r","o","c","e","s","s","i","n","g"," ","p","u","l","l"," ","r","e","q","u","e","s","t"," ","c","h","a","n","g","e","s",":"," ">>
\* 'Error fetching file diff: '
L_err_fetching_diff ==
    <<"E","r","r","o","r"," ","f","e","t","c","h","i","n","g"," ","f","i","l","e"," ","d","i","f","f",":"," ">>
\* 'HTTP error fetching pull requests: '
L_log_http_prs ==
    <<"H","T","T","P"," ","e","r","r","o","r"," ","f","e","t","c","h","i","n","g"," ","p","u","l","l"," ","r","e","q","u","e","s","t","s",":"," ">>
\* 'Request error fetching pull requests: '
L_log_request_prs ==
    <<"R","e","q","u","e","s","t"," ","e","r","r","o","r"," ","f","e","t","c","h","i","n","g"," ","p","u","l","l"," ","r","e","q","u","e","s","t","s",":"," ">>
\* 'HTTP error fetching pull request changes: '
L_log_http_changes ==
    <<"H","T","T","P"," ","e","r","r","o","r"," ","f","e","t","c","h","i","n","g"," ","p","u","l","l"," ","r","e","q","u","e","s","t"," ","c","h","a","n","g","e","s",":"," ">>
\* 'Request error fetching pull request changes: '
L_log_request_changes ==
    <<"R","e","q","u","e","s","t"," ","e","r","r","o","r"," ","f","e","t","c","h","i","n","g"," ","p","u","l","l"," ","r","e","q","u","e","s","t"," ","c","h","a","n","g","e","s",":"," ">>
\* 'HTTP error fetching file diff: '
L_log_http_diff ==
    <<"H","T","T","P"," ","e","r","r","o","r"," ","f","e","t","c","h","i","n","g"," ","f","i","l","e"," ","d","i","f","f",":"," ">>
\* 'Request error fetching file diff: '
L_log_request_diff ==
    <<"R","e","q","u","e","s","t"," ","e","r","r","o","r"," ","f","e","t","c","h","i","n","g"," ","f","i","l","e"," ","d","i","f","f",":"," ">>
\* ' - '
L_dash ==
    <<" ","-"," ">>
\* " object has no attribute 'get'"
L_no_attr_get ==
    <<" ","o","b","j","e","c","t"," ","h","a","s"," ","n","o"," ","a","t","t","r","i","b","u","t","e"," ","'","g","e","t","'">>
\* ' object is not iterable'
L_not_iterable ==
    <<" ","o","b","j","e","c","t"," ","i","s"," ","n","o","t"," ","i","t","e","r","a","b","l","e">>
\* "'dict' object has no attribute 'set'"
L_dict_no_set ==
    <<"'","d","i","c","t","'"," ","o","b","j","e","c","t"," ","h","a","s"," ","n","o"," ","a","t","t","r","i","b","u","t","e"," ","'","s","e","t","'">>
\* 'Expecting value: line 1 column 1 (char 0)'
L_json_decode ==
    <<"E","x","p","e","c","t","i","n","g"," ","v","a","l","u","e",":"," ","l","i","n","e"," ","1"," ","c","o","l","u","m","n"," ","1"," ","(","c","h","a","r"," ","0",")">>
\* 'Internal Server Error'
L_internal_server_error ==
    <<"I","n","t","e","r","n","a","l"," ","S","e","r","v","e","r"," ","E","r","r","o","r">>
\* "'NoneType'"
T_NoneType ==
    <<"'","N","o","n","e","T","y","p","e","'">>
\* "'str'"
T_str ==
    <<"'","s","t","r","'">>
\* "'int'"
T_int ==
    <<"'","i","n","t","'">>
\* "'list'"
T_list ==
    <<"'","l","i","s","t","'">>
\* "'dict'"
T_dict ==
    <<"'","d","i","c","t","'">>
\* "'ascii' codec can't encode character '\\xe9' in position "
L_ascii_codec_pre ==
    <<"'","a","s","c","i","i","'"," ","c","o","d","e","c"," ","c","a","n","'","t"," ","e","n","c","o","d","e"," ","c","h","a","r","a","c","t","e","r"," ","'","\\","x","e","9","'"," ","i","n"," ","p","o","s","i","t","i","o","n"," ">>
\* ': ordinal not in range(128)'
L_ascii_codec_post ==
    <<":"," ","o","r","d","i","n","a","l"," ","n","o","t"," ","i","n"," ","r","a","n","g","e","(","1","2","8",")">>
\* ':'
L_colon ==
    <<":">>

-----------------------------------------------------------------------------
(* Python / JSON values *)

JNull == [t |-> "null"]
JStr(s) == [t |-> "str", s |-> s]
JNum(n) == [t |-> "num", n |-> n]
JObj(m) == [t |-> "obj", m |-> m]
JArr(a) == [t |-> "arr", a |-> a]
EmptyDict == JObj(<<>>)

\* a raised exception, as the value of the expression that raised it
PyRaise(exc, msg) == [t |-> "raise", exc |-> exc, msg |-> msg]

IsRaise(v) == v.t = "raise"

\* first element of a tuple of values that is a raised exception (left-to-right evaluation)
FirstRaise(vs) ==
    vs[CHOOSE i \in 1..Len(vs) : IsRaise(vs[i]) /\ \A j \in 1..(i - 1) : ~IsRaise(vs[j])]

TypeName(v) ==
    CASE v.t = "null" -> T_NoneType
      [] v.t = "str" -> T_str
      [] v.t = "num" -> T_int
      [] v.t = "arr" -> T_list
      [] v.t = "obj" -> T_dict

\* Python truthiness, as used by `if not x`
Truthy(v) ==
    CASE v.t = "null" -> FALSE
      [] v.t = "str" -> Len(v.s) > 0
      [] v.t = "num" -> v.n # 0
      [] v.t = "arr" -> Len(v.a) > 0
      [] v.t = "obj" -> DOMAIN v.m # {}

\* f"{v}" for None, a str and a non-negative int
pystr(v) ==
    CASE v.t = "null" -> L_None
      [] v.t = "str" -> v.s
      [] v.t = "num" -> str(v.n)

\* v.get(key, default): only a dict has .get
dict_get(v, key, default) ==
    IF IsRaise(v) THEN v
    ELSE IF v.t = "obj"
         THEN IF key \in DOMAIN v.m THEN v.m[key] ELSE default
         ELSE PyRaise("AttributeError", TypeName(v) \o L_no_attr_get)

\* the items a `for x in v` loop visits (as a list), for a truthy v that is a list,
\* a str or an int
iterate(v) ==
    CASE v.t = "arr" -> v
      [] v.t = "str" -> JArr([i \in 1..Len(v.s) |-> JStr(<<v.s[i]>>)])
      [] v.t = "num" -> PyRaise("TypeError", T_int \o L_not_iterable)

-----------------------------------------------------------------------------
(* Process environment and request headers *)

\* a character outside ASCII (U+00E9), named by its code point
NonAscii == "U+00E9"

IsAscii(s) == \A i \in 1..Len(s) : s[i] # NonAscii

\* str.encode("ascii"): the text itself, or UnicodeEncodeError at the first non-ASCII character
encode_ascii(s) ==
    IF IsAscii(s) THEN JStr(s)
    ELSE LET pos == CHOOSE i \in 1..Len(s) :
                        s[i] = NonAscii /\ \A j \in 1..(i - 1) : s[j] # NonAscii
         IN PyRaise("UnicodeEncodeError",
                    L_ascii_codec_pre \o str(pos - 1) \o L_ascii_codec_post)

\* get_bitbucket_headers(): a dict, or the exception the encoding raised.
\* The base64 text is left symbolic: `b64` names the bytes that are encoded.
get_bitbucket_headers(env) ==
    LET username == env.BITBUCKET_USERNAME
        password == env.BITBUCKET_PASSWORD
        auth_string == pystr(username) \o L_colon \o pystr(password)
        auth_bytes == encode_ascii(auth_string)
    IN IF IsRaise(auth_bytes) THEN auth_bytes
       ELSE [t |-> "dict",
             Accept |-> L_application_json,
             Authorization |-> [scheme |-> L_Basic, b64 |-> auth_bytes.s]]

\* headers.set("Accept", "text/plain") on the dict get_bitbucket_headers returned:
\* a dict has no attribute `set`
headers_set(headers, name, value) ==
    PyRaise("AttributeError", L_dict_no_set)

-----------------------------------------------------------------------------
(* Outbound URLs *)

PageStart == 0
PageLimit == 99999

pull_requests_url(env, project, repository) ==
    pystr(env.BITBUCKET_URL) \o L_rest_projects \o project \o L_repos \o repository
        \o L_pull_requests_state \o L_OPEN
        \o L_amp_start_eq \o str(PageStart) \o L_amp_limit_eq \o str(PageLimit)

pull_requests_changes_url(env, project, repository, pull_request_id) ==
    pystr(env.BITBUCKET_URL) \o L_rest_projects \o project \o L_repos \o repository
        \o L_pull_requests_slash \o str(pull_request_id)
        \o L_changes_start \o str(PageStart) \o L_amp_limit \o str(PageLimit)

file_diff_url(env, project, repository, pull_request_id, path) ==
    pystr(env.BITBUCKET_URL) \o L_rest_projects \o project \o L_repos \o repository
        \o L_pull_requests_slash \o str(pull_request_id) \o L_diff_slash \o path

Get(url, headers) == [t |-> "request", method |-> "GET", url |-> url, headers |-> headers]

-----------------------------------------------------------------------------
(* httpx responses and errors *)

\* the body of a response that is not JSON
NotJson == [t |-> "notjson"]

Response(status, text, json) ==
    [t |-> "response", status |-> status, text |-> text, json |-> json]

TransportFailure(exc, msg) == [t |-> "error", exc |-> exc, msg |-> msg]

\* httpx.RequestError and its subclasses
RequestErrors == {"ConnectError", "ConnectTimeout", "ReadTimeout", "PoolTimeout"}

\* response.raise_for_status(): HTTPStatusError for 4xx and 5xx
raise_for_status(response) ==
    IF response.status >= 400 /\ response.status <= 599
    THEN [t |-> "raise", exc |-> "HTTPStatusError", msg |-> <<>>, response |-> response]
    ELSE response

\* response.json()
response_json(response) ==
    IF response.json.t = "notjson" THEN PyRaise("JSONDecodeError", L_json_decode)
    ELSE response.json

\* what `await httpx_client.get(...)` evaluates to, given what the network did
await_get(answer) ==
    IF answer.t = "error" THEN PyRaise(answer.exc, answer.msg) ELSE answer

-----------------------------------------------------------------------------
(* What a tool coroutine ends with *)

Return(text, log) == [kind |-> "return", text |-> text, exc |-> "none", log |-> log]

\* an exception that leaves the coroutine
Propagate(e) == [kind |-> "raise", text |-> e.msg, exc |-> e.exc, log |-> <<>>]

NoLog == <<>>

-----------------------------------------------------------------------------
(* get_pull_requests *)

\* lines 78-83: the text block of one pull request, or the exception a .get raised
pr_info(pr) ==
    LET id == dict_get(pr, "id", JNull)
        title == dict_get(pr, "title", JNull)
        state == dict_get(pr, "state", JNull)
        author == dict_get(dict_get(dict_get(pr, "author", EmptyDict),
                                    "user", EmptyDict),
                           "displayName", JNull)
        fields == <<id, title, state, author>>
    IN IF \E i \in 1..4 : IsRaise(fields[i]) THEN FirstRaise(fields)
       ELSE JStr(L_ID \o pystr(id) \o NL
                 \o L_Title \o pystr(title) \o NL
                 \o L_State \o pystr(state) \o NL
                 \o L_Author \o pystr(author) \o NL)

\* lines 76-86: the loop over the items and the final join
format_pull_requests(pull_requests) ==
    LET items == iterate(pull_requests)
    IN IF IsRaise(items) THEN items
       ELSE LET res == [i \in 1..Len(items.a) |-> pr_info(items.a[i])]
            IN IF \E i \in 1..Len(res) : IsRaise(res[i]) THEN FirstRaise(res)
               ELSE JStr(join(NL, [i \in 1..Len(res) |-> res[i].s]))

\* a variant of values_is_empty that takes only a missing `values` (None) for empty
values_is_empty_only_none(values) == values.t = "null"

\* line 71: `if not response.json().get("values")`
values_is_empty(values) == ~Truthy(values)

\* lines 67-86: the try body from the await on; a str value or a raised exception
pull_requests_body(answer) ==
    LET response == await_get(answer)
    IN IF IsRaise(response) THEN response
       ELSE LET checked == raise_for_status(response)
            IN IF IsRaise(checked) THEN checked
               ELSE LET values == dict_get(response_json(response), "values", JNull)
                    IN IF IsRaise(values) THEN values
                       ELSE IF values_is_empty(values) THEN JStr(L_no_pull_requests)
                       ELSE format_pull_requests(
                                dict_get(response_json(response), "values", JArr(<<>>)))

\* lines 85-97: the value returned, through the except clauses
pull_requests_except(r) ==
    IF ~IsRaise(r)
    THEN Return(r.s, IF r.s = L_no_pull_requests THEN NoLog ELSE r.s)
    ELSE IF r.exc = "HTTPStatusError"
         THEN Return(L_err_fetching_prs \o str(r.response.status),
                     L_log_http_prs \o str(r.response.status) \o L_dash \o r.response.text)
    ELSE IF r.exc \in RequestErrors
         THEN Return(L_err_fetching_prs \o r.msg, L_log_request_prs \o r.msg)
    ELSE Return(L_err_processing_prs \o r.msg, L_err_processing_prs \o r.msg)

\* lines 64-67: up to the await; the GET to issue, or the exception raised before it
get_pull_requests_request(env, project, repository) ==
    LET url == pull_requests_url(env, project, repository)
        headers == get_bitbucket_headers(env)
    IN IF IsRaise(headers) THEN headers ELSE Get(url, headers)

-----------------------------------------------------------------------------
(* get_pull_requests_changes *)

\* lines 127-130
change_info(change) ==
    LET path == dict_get(dict_get(change, "path", EmptyDict), "toString", JNull)
        type == dict_get(change, "type", JNull)
        fields == <<path, type>>
    IN IF \E i \in 1..2 : IsRaise(fields[i]) THEN FirstRaise(fields)
       ELSE JStr(L_File \o pystr(path) \o NL \o L_Type \o pystr(type) \o NL)

\* lines 125-132
format_changes(changes) ==
    LET items == iterate(changes)
    IN IF IsRaise(items) THEN items
       ELSE LET res == [i \in 1..Len(items.a) |-> change_info(items.a[i])]
            IN IF \E i \in 1..Len(res) : IsRaise(res[i]) THEN FirstRaise(res)
               ELSE JStr(join(NL, [i \in 1..Len(res) |-> res[i].s]))

\* lines 116-132
pull_requests_changes_body(answer) ==
    LET response == await_get(answer)
    IN IF IsRaise(response) THEN response
       ELSE LET checked == raise_for_status(response)
            IN IF IsRaise(checked) THEN checked
               ELSE LET values == dict_get(response_json(response), "values", JNull)
                    IN IF IsRaise(values) THEN values
                       ELSE IF values_is_empty(values) THEN JStr(L_no_changes)
                       ELSE format_changes(
                                dict_get(response_json(response), "values", JArr(<<>>)))

\* lines 133-143
pull_requests_changes_except(r) ==
    IF ~IsRaise(r) THEN Return(r.s, NoLog)
    ELSE IF r.exc = "HTTPStatusError"
         THEN Return(L_err_fetching_changes \o str(r.response.status),
                     L_log_http_changes \o str(r.response.status) \o L_dash
                         \o r.response.text)
    ELSE IF r.exc \in RequestErrors
         THEN Return(L_err_fetching_changes \o r.msg, L_log_request_changes \o r.msg)
    ELSE Return(L_err_processing_changes \o r.msg, L_err_processing_changes \o r.msg)

\* lines 113-116
get_pull_requests_changes_request(env, project, repository, pull_request_id) ==
    LET url == pull_requests_changes_url(env, project, repository, pull_request_id)
        headers == get_bitbucket_headers(env)
    IN IF IsRaise(headers) THEN headers ELSE Get(url, headers)

-----------------------------------------------------------------------------
(* get_file_diff *)

\* lines 164-168
file_diff_body(answer) ==
    LET response == await_get(answer)
    IN IF IsRaise(response) THEN response
       ELSE LET checked == raise_for_status(response)
            IN IF IsRaise(checked) THEN checked ELSE JStr(response.text)

\* lines 169-176: two except clauses only; anything else leaves the coroutine
file_diff_except(r) ==
    IF ~IsRaise(r) THEN Return(r.s, NoLog)
    ELSE IF r.exc = "HTTPStatusError"
         THEN Return(L_err_fetching_diff \o str(r.response.status),
                     L_log_http_diff \o str(r.response.status) \o L_dash \o r.response.text)
    ELSE IF r.exc \in RequestErrors
         THEN Return(L_err_fetching_diff \o r.msg, L_log_request_diff \o r.msg)
    ELSE Propagate(r)

\* lines 160-164: up to the await
get_file_diff_request(env, project, repository, pull_request_id, path) ==
    LET url == file_diff_url(env, project, repository, pull_request_id, path)
        headers == get_bitbucket_headers(env)
    IN IF IsRaise(headers) THEN headers
       ELSE LET overridden == headers_set(headers, "Accept", L_text_plain)
            IN IF IsRaise(overridden) THEN overridden ELSE Get(url, overridden)

-----------------------------------------------------------------------------
(* Inputs: environments, arguments and upstream answers *)

\* 'http://bb'
BaseUrl ==
    <<"h","t","t","p",":","/","/","b","b">>
\* 'ENG'
P_ENG ==
    <<"E","N","G">>
\* 'A/B'
P_slash ==
    <<"A","/","B">>
\* 'backend'
R_backend ==
    <<"b","a","c","k","e","n","d">>
\* 'r?#'
R_query ==
    <<"r","?","#">>
\* 'a.py'
F_plain ==
    <<"a",".","p","y">>
\* 'my file.py'
F_space ==
    <<"m","y"," ","f","i","l","e",".","p","y">>
\* '50%.md'
F_percent ==
    <<"5","0","%",".","m","d">>
\* 'bot'
S_user ==
    <<"b","o","t">>
\* 'pw'
S_password ==
    <<"p","w">>
\* 'Fix bug'
S_fix_bug ==
    <<"F","i","x"," ","b","u","g">>
\* 'Jane Doe'
S_jane_doe ==
    <<"J","a","n","e"," ","D","o","e">>
\* 'src/a.py'
S_src_a_py ==
    <<"s","r","c","/","a",".","p","y">>
\* 'MODIFY'
S_MODIFY ==
    <<"M","O","D","I","F","Y">>
\* 'ADD'
S_ADD ==
    <<"A","D","D">>
\* 'Not Found'
B_not_found ==
    <<"N","o","t"," ","F","o","u","n","d">>
\* '<html>'
B_html ==
    <<"<","h","t","m","l",">">>
\* '+a CR LF -b LF'
B_diff ==
    <<"+","a","\r","\n","-","b","\n">>
\* 'All connection attempts failed'
M_all_attempts ==
    <<"A","l","l"," ","c","o","n","n","e","c","t","i","o","n"," ","a","t","t","e","m","p","t","s"," ","f","a","i","l","e","d">>
\* '[Errno 111] Connection refused'
M_errno ==
    <<"[","E","r","r","n","o"," ","1","1","1","]"," ","C","o","n","n","e","c","t","i","o","n"," ","r","e","f","u","s","e","d">>

\* the process environment: as configured, and with a password outside ASCII
EnvPlain ==
    [BITBUCKET_URL |-> JStr(BaseUrl),
     BITBUCKET_USERNAME |-> JStr(S_user),
     BITBUCKET_PASSWORD |-> JStr(S_password)]

EnvNonAscii ==
    [BITBUCKET_URL |-> JStr(BaseUrl),
     BITBUCKET_USERNAME |-> JStr(S_user),
     BITBUCKET_PASSWORD |-> JStr(S_password \o <<NonAscii>>)]

Envs == {EnvPlain, EnvNonAscii}

Projects == {P_ENG, P_slash}
Repositories == {R_backend, R_query}
PullRequestIds == 1..MaxPullRequestId
Paths == {F_plain, F_space, F_percent}

Tools == {"get_pull_requests", "get_pull_requests_changes", "get_file_diff"}

SeqsUpTo(S, n) == UNION {[1..k -> S] : k \in 0..n}

\* pull request items as the upstream may send them
PrFull ==
    JObj([id |-> JNum(42), title |-> JStr(S_fix_bug), state |-> JStr(L_OPEN),
          author |-> JObj([user |-> JObj([displayName |-> JStr(S_jane_doe)])])])
PrBare == EmptyDict
PrNullAuthor ==
    JObj([id |-> JNum(7), title |-> JNull, state |-> JStr(L_OPEN), author |-> JNull])
PrAuthorNoUser == JObj([id |-> JNum(8), author |-> EmptyDict])
PrUserNoName ==
    JObj([id |-> JNum(9), title |-> JStr(S_fix_bug), author |-> JObj([user |-> EmptyDict])])

PrItems == {PrFull, PrBare, PrNullAuthor, PrAuthorNoUser, PrUserNoName}

\* change items
ChangeFull == JObj([path |-> JObj([toString |-> JStr(S_src_a_py)]), type |-> JStr(S_MODIFY)])
ChangeBare == EmptyDict
ChangeNullPath == JObj([path |-> JNull, type |-> JStr(S_ADD)])
ChangeNoName == JObj([path |-> EmptyDict, type |-> JNull])

ChangeItems == {ChangeFull, ChangeBare, ChangeNullPath, ChangeNoName}

\* JSON documents of a list endpoint, for a set of items
ListDocs(items) ==
    {JObj([values |-> JArr(a)]) : a \in SeqsUpTo(items, MaxItems)}
        \cup {EmptyDict, JObj([values |-> JNull]), JObj([values |-> JNum(1)]), JArr(<<>>)}

\* non-2xx answers; 404 and 500 are statuses for which raise_for_status raises in every
\* httpx release
StatusErrors == {Response(s, B_not_found, NotJson) : s \in {404, 500}}

TransportFailures ==
    {TransportFailure("ConnectError", M_all_attempts),
     TransportFailure("ConnectError", M_errno),
     TransportFailure("ReadTimeout", <<>>)}

\* a 2xx answer of the list endpoints: a JSON document (its text is not modelled), or not JSON
ListSuccesses(items) ==
    {Response(200, <<>>, d) : d \in ListDocs(items)} \cup {Response(200, B_html, NotJson)}

DiffSuccesses == {Response(200, b, NotJson) : b \in {B_diff, <<>>}}

Successes(tool) ==
    CASE tool = "get_pull_requests" -> ListSuccesses(PrItems)
      [] tool = "get_pull_requests_changes" -> ListSuccesses(ChangeItems)
      [] tool = "get_file_diff" -> DiffSuccesses

\* everything the network can do with the GET of a tool
Answers(tool) == Successes(tool) \cup StatusErrors \cup TransportFailures

-----------------------------------------------------------------------------
(* The three tools as coroutines: the part before the await, the part after it *)

Call(tool, env, project, repository, pull_request_id, path) ==
    [tool |-> tool, env |-> env, project |-> project, repository |-> repository,
     pull_request_id |-> pull_request_id, path |-> path]

\* the try body up to `await httpx_client.get(...)`
tool_request(c) ==
    CASE c.tool = "get_pull_requests" ->
            get_pull_requests_request(c.env, c.project, c.repository)
      [] c.tool = "get_pull_requests_changes" ->
            get_pull_requests_changes_request(c.env, c.project, c.repository,
                                              c.pull_request_id)
      [] c.tool = "get_file_diff" ->
            get_file_diff_request(c.env, c.project, c.repository, c.pull_request_id,
                                  c.path)

\* the except clauses of a tool applied to a value or exception of its try body
tool_except(tool, r) ==
    CASE tool = "get_pull_requests" -> pull_requests_except(r)
      [] tool = "get_pull_requests_changes" -> pull_requests_changes_except(r)
      [] tool = "get_file_diff" -> file_diff_except(r)

\* the try body from the await on
tool_body(tool, answer) ==
    CASE tool = "get_pull_requests" -> pull_requests_body(answer)
      [] tool = "get_pull_requests_changes" -> pull_requests_changes_body(answer)
      [] tool = "get_file_diff" -> file_diff_body(answer)

\* what the tool ends with once the network has answered its GET
tool_result(tool, answer) == tool_except(tool, tool_body(tool, answer))

-----------------------------------------------------------------------------
(* HTTP routes *)

HttpResponse(status, media_type, body) ==
    [status |-> status, media_type |-> media_type, body |-> body]

\* Response(await tool(...), media_type="text/plain"); an exception leaving the
\* handler is answered by the framework with 500 Internal Server Error
route_response(res) ==
    IF res.kind = "return" THEN HttpResponse(200, L_text_plain, res.text)
    ELSE HttpResponse(500, L_text_plain, L_internal_server_error)

-----------------------------------------------------------------------------
(* State machine of one invocation *)

NoCall == [tool |-> "none"]
NoRequest == [t |-> "none"]
NoAnswer == [t |-> "none"]
NoResult == [kind |-> "none"]
NoHttp == [status |-> 0]

\* the shared client before any request: no invocation, no connection
NoCalls == [calls |-> <<>>, idle |-> 0]

Init ==
    /\ pc = "idle"
    /\ via = "none"
    /\ call = NoCall
    /\ world = NoAnswer
    /\ request = NoRequest
    /\ upstream = NoAnswer
    /\ result = NoResult
    /\ http = NoHttp
    /\ pool = NoCalls

\* the coroutine ends with res; a route wraps it into its HTTP response
Finish(v, res) ==
    /\ pc' = "done"
    /\ result' = res
    /\ http' = IF v = "route" THEN route_response(res) ELSE NoHttp

\* an invocation starts, in a world disposed to answer its GET in one way, and runs up
\* to its await, or to its end when it raises before
Start(v, c) ==
    /\ pc = "idle"
    /\ via' = v
    /\ call' = c
    /\ world' \in Answers(c.tool)
    /\ LET req == tool_request(c)
       IN IF IsRaise(req)
          THEN /\ Finish(v, tool_except(c.tool, req))
               /\ UNCHANGED request
          ELSE /\ request' = req
               /\ pc' = "awaiting"
               /\ UNCHANGED <<result, http>>
    /\ UNCHANGED <<upstream, pool>>

\* the MCP tools
mcp_get_pull_requests ==
    \E env \in Envs, project \in Projects, repository \in Repositories :
        Start("tool", Call("get_pull_requests", env, project, repository, 0, <<>>))

mcp_get_pull_requests_changes ==
    \E env \in Envs, project \in Projects, repository \in Repositories,
       pull_request_id \in PullRequestIds :
        Start("tool", Call("get_pull_requests_changes", env, project, repository,
                           pull_request_id, <<>>))

mcp_get_file_diff ==
    \E env \in Envs, project \in Projects, repository \in Repositories,
       pull_request_id \in PullRequestIds, path \in Paths :
        Start("tool", Call("get_file_diff", env, project, repository,
                           pull_request_id, path))

\* the HTTP GET routes
api_get_pull_requests ==
    \E env \in Envs, project \in Projects, repository \in Repositories :
        Start("route", Call("get_pull_requests", env, project, repository, 0, <<>>))

api_get_pull_requests_changes ==
    \E env \in Envs, project \in Projects, repository \in Repositories,
       pull_request_id \in PullRequestIds :
        Start("route", Call("get_pull_requests_changes", env, project, repository,
                            pull_request_id, <<>>))

api_get_file_diff ==
    \E env \in Envs, project \in Projects, repository \in Repositories,
       pull_request_id \in PullRequestIds, path \in Paths :
        Start("route", Call("get_file_diff", env, project, repository,
                            pull_request_id, path))

\* the upstream server answers the GET with a response; the coroutine resumes and ends
UpstreamResponds ==
    /\ pc = "awaiting"
    /\ world.t = "response"
    /\ upstream' = world
    /\ Finish(via, tool_result(call.tool, world))
    /\ UNCHANGED <<via, call, world, request, pool>>

\* the GET fails below HTTP (connection refused, DNS, timeout)
TransportFails ==
    /\ pc = "awaiting"
    /\ world.t = "error"
    /\ upstream' = world
    /\ Finish(via, tool_result(call.tool, world))
    /\ UNCHANGED <<via, call, world, request, pool>>

Next ==
    \/ mcp_get_pull_requests
    \/ mcp_get_pull_requests_changes
    \/ mcp_get_file_diff
    \/ api_get_pull_requests
    \/ api_get_pull_requests_changes
    \/ api_get_file_diff
    \/ UpstreamResponds
    \/ TransportFails

Spec == Init /\ [][Next]_vars

-----------------------------------------------------------------------------
(* The shared client: concurrent invocations on one connection pool *)

\* httpx.Limits(max_connections=10, max_keepalive_connections=5, ...)
MaxConnections == 10
MaxKeepalive == 5

\* the invocations started so far
Calls == DOMAIN pool.calls

\* connections carrying a request
Active(p) == Cardinality({c \in DOMAIN p.calls : p.calls[c].pc = "inflight"})

\* requests queued for a connection
Waiting(p) == {c \in DOMAIN p.calls : p.calls[c].pc = "waiting"}

\* a variant of pool_can_connect with the ceiling off by one
pool_can_connect_off_by_one(active, idle) == idle > 0 \/ active + idle <= MaxConnections

\* a request gets a connection at once: an idle one is reused, or a new one is opened
\* below the ceiling
pool_can_connect(active, idle) == idle > 0 \/ active + idle < MaxConnections

\* every concurrent invocation is get_pull_requests on a reachable server with no
\* open pull requests
PoolCall == Call("get_pull_requests", EnvPlain, P_ENG, R_backend, 0, <<>>)
PoolAnswer == Response(200, <<>>, JObj([values |-> JArr(<<>>)]))

\* httpx.Timeout(60) is also the pool timeout: a request still queued for a connection
\* when it expires fails with httpx.PoolTimeout, a RequestError with an empty message
pool_timeout_error == TransportFailure("PoolTimeout", <<>>)

\* one more invocation starts: it issues its GET on the shared client, which sends it
\* on a connection or queues it
PoolInvoke ==
    /\ Len(pool.calls) < NumCalls
    /\ ~IsRaise(tool_request(PoolCall))
    /\ IF pool_can_connect(Active(pool), pool.idle)
       THEN pool' = [calls |-> Append(pool.calls,
                                      [pc |-> "inflight", queued |-> FALSE, sent |-> TRUE,
                                       result |-> NoResult]),
                     idle |-> IF pool.idle > 0 THEN pool.idle - 1 ELSE 0]
       ELSE pool' = [calls |-> Append(pool.calls,
                                      [pc |-> "waiting", queued |-> TRUE, sent |-> FALSE,
                                       result |-> NoResult]),
                     idle |-> pool.idle]
    /\ UNCHANGED <<pc, via, call, world, request, upstream, result, http>>

\* the response of invocation c arrives: the coroutine ends, and its connection goes
\* to a queued request, or is kept idle up to the keep-alive ceiling, or is closed
PoolRespond(c) ==
    /\ pool.calls[c].pc = "inflight"
    /\ LET res == tool_result(PoolCall.tool, PoolAnswer)
           ended == [pool.calls EXCEPT ![c].pc = "done", ![c].result = res]
       IN IF Waiting(pool) # {}
          THEN \E w \in Waiting(pool) :
                  pool' = [calls |-> [ended EXCEPT ![w].pc = "inflight", ![w].sent = TRUE],
                           idle |-> pool.idle]
          ELSE pool' = [calls |-> ended,
                        idle |-> IF pool.idle < MaxKeepalive THEN pool.idle + 1
                                 ELSE pool.idle]
    /\ UNCHANGED <<pc, via, call, world, request, upstream, result, http>>

\* the pool timeout of a queued invocation expires before a connection is freed
PoolTimeout(c) ==
    /\ pool.calls[c].pc = "waiting"
    /\ pool' = [pool EXCEPT !.calls[c].pc = "done",
                            !.calls[c].result = tool_result(PoolCall.tool,
                                                            pool_timeout_error)]
    /\ UNCHANGED <<pc, via, call, world, request, upstream, result, http>>

\* an idle connection reaches keepalive_expiry and is closed
KeepaliveExpiry ==
    /\ pool.idle > 0
    /\ pool' = [pool EXCEPT !.idle = pool.idle - 1]
    /\ UNCHANGED <<pc, via, call, world, request, upstream, result, http>>

NextPool ==
    \/ PoolInvoke
    \/ \E c \in Calls : PoolRespond(c)
    \/ \E c \in Calls : PoolTimeout(c)
    \/ KeepaliveExpiry

SpecPool == Init /\ [][NextPool]_vars

-----------------------------------------------------------------------------
(* Vocabulary of the properties *)

Done == pc = "done"

IsListTool(tool) == tool \in {"get_pull_requests", "get_pull_requests_changes"}

\* the arguments and the environment allow the tool to build its request
Requestable == ~IsRaise(get_bitbucket_headers(call.env))

Is2xx(answer) == answer.t = "response" /\ answer.status >= 200 /\ answer.status <= 299

IsNon2xx(answer) == answer.t = "response" /\ ~(answer.status >= 200 /\ answer.status <= 299)

\* the 'Error fetching ...: ' prefix of each operation
ErrFetching(tool) ==
    CASE tool = "get_pull_requests" -> L_err_fetching_prs
      [] tool = "get_pull_requests_changes" -> L_err_fetching_changes
      [] tool = "get_file_diff" -> L_err_fetching_diff

Sentinel(tool) ==
    CASE tool = "get_pull_requests" -> L_no_pull_requests
      [] tool = "get_pull_requests_changes" -> L_no_changes

HasDigit(s) == \E i \in 1..Len(s) : IsDigit(s[i])

\* every string a tool can return for a non-2xx status
StatusStrings(tool) == {ErrFetching(tool) \o str(s) : s \in (100..199) \cup (300..599)}

-----------------------------------------------------------------------------
(* C1 *)

\* C1: whatever the outcome of an invocation (2xx, non-2xx, transport failure, a failure
\* while building the request or processing the response), it ends by returning a text
\* string; no exception leaves the tool.
C1_NoExceptionLeavesTool == Done => result.kind = "return"

-----------------------------------------------------------------------------
(* C2 *)

\* C2: when the upstream answers the GET of a tool with a non-2xx status, the tool
\* returns its 'Error fetching ...: <status>' string, which holds the status code and
\* not the response body.
C2_StatusErrorString ==
    (Done /\ Requestable /\ IsNon2xx(world)) =>
        /\ result.kind = "return"
        /\ result.text = ErrFetching(call.tool) \o str(world.status)
        /\ Contains(result.text, str(world.status))
        /\ ~Contains(result.text, world.text)

-----------------------------------------------------------------------------
(* C3 *)

\* C3: on a transport-level failure, whatever its message, the string a tool returns
\* is none of the strings the tool returns for a non-2xx status and embeds no numeric
\* code.
C3_TransportStringDistinct ==
    (Done /\ Requestable /\ world.t = "error") =>
        /\ result.kind = "return"
        /\ result.text \notin StatusStrings(call.tool)
        /\ ~HasDigit(result.text)

-----------------------------------------------------------------------------
(* C4 *)

\* the value shown for a field: None when the field is missing or null
Shown(item, key) ==
    IF key \in DOMAIN item.m /\ item.m[key].t # "null" THEN pystr(item.m[key])
    ELSE L_None

\* the author shown: None for a missing or null author, user or displayName
ShownAuthor(item) ==
    IF "author" \in DOMAIN item.m /\ item.m["author"].t = "obj"
       /\ "user" \in DOMAIN item.m["author"].m
       /\ item.m["author"].m["user"].t = "obj"
    THEN Shown(item.m["author"].m["user"], "displayName")
    ELSE L_None

ExpectedBlock(item) ==
    L_ID \o Shown(item, "id") \o NL
        \o L_Title \o Shown(item, "title") \o NL
        \o L_State \o Shown(item, "state") \o NL
        \o L_Author \o ShownAuthor(item) \o NL

\* a 2xx answer whose `values` is an array of N > 0 items
IsPopulated(answer) ==
    /\ Is2xx(answer)
    /\ answer.json.t = "obj"
    /\ "values" \in DOMAIN answer.json.m
    /\ answer.json.m["values"].t = "arr"
    /\ Len(answer.json.m["values"].a) > 0

\* C4: for N > 0 items, get_pull_requests returns exactly N blocks in upstream order,
\* joined by one blank line, each with its ID, Title, State and Author lines and None
\* for every missing field (a missing or null author included).
C4_PullRequestBlocks ==
    (Done /\ call.tool = "get_pull_requests" /\ IsPopulated(upstream)) =>
        LET items == upstream.json.m["values"].a
        IN /\ result.kind = "return"
           /\ result.text = join(NL, [i \in 1..Len(items) |-> ExpectedBlock(items[i])])

-----------------------------------------------------------------------------
(* C5 *)

\* a 2xx answer whose top-level `values` is absent or an empty array
IsEmptyList(answer) ==
    /\ Is2xx(answer)
    /\ answer.json.t = "obj"
    /\ \/ "values" \notin DOMAIN answer.json.m
       \/ /\ "values" \in DOMAIN answer.json.m
          /\ answer.json.m["values"].t = "arr"
          /\ Len(answer.json.m["values"].a) = 0

\* a 2xx JSON object without items: `values` absent, null or empty
HasNoItems(answer) ==
    /\ Is2xx(answer)
    /\ answer.json.t = "obj"
    /\ \/ "values" \notin DOMAIN answer.json.m
       \/ /\ "values" \in DOMAIN answer.json.m
          /\ ~Truthy(answer.json.m["values"])

\* C5: a list tool answers a 2xx response whose `values` is absent or empty with exactly
\* its sentinel string, and returns that string for no error and no populated list.
C5_EmptyListSentinel ==
    (Done /\ IsListTool(call.tool)) =>
        /\ IsEmptyList(upstream) =>
              (result.kind = "return" /\ result.text = Sentinel(call.tool))
        /\ result.text = Sentinel(call.tool) => HasNoItems(upstream)

\* a list tool has answered an empty list with its sentinel
C5_Witness ==
    /\ Done
    /\ call.tool = "get_pull_requests_changes"
    /\ IsEmptyList(upstream)
    /\ "values" \in DOMAIN upstream.json.m
    /\ result.text = L_no_changes

-----------------------------------------------------------------------------
(* C6 *)

\* C6: when the upstream answers the diff request with a 2xx status and body B,
\* get_file_diff has issued the GET with Accept: text/plain and returns exactly B.
C6_DiffPassThrough ==
    (Done /\ call.tool = "get_file_diff" /\ Requestable /\ Is2xx(world)) =>
        /\ request.t = "request"
        /\ request.headers.Accept = L_text_plain
        /\ result.kind = "return"
        /\ result.text = world.text

-----------------------------------------------------------------------------
(* C7 *)

\* C7: a route answers 200, text/plain, with the string its tool returns for the same
\* arguments and the same upstream outcome, whatever that outcome.
C7_RouteMirrorsTool ==
    (Done /\ via = "route") =>
        /\ result.kind = "return"
        /\ http = HttpResponse(200, L_text_plain, result.text)

-----------------------------------------------------------------------------
(* C8 *)

\* percent-encoding of one character of a path segment
quote_char(c) ==
    CASE c = " " -> <<"%","2","0">>
      [] c = "/" -> <<"%","2","F">>
      [] c = "?" -> <<"%","3","F">>
      [] c = "#" -> <<"%","2","3">>
      [] c = "%" -> <<"%","2","5">>
      [] OTHER -> <<c>>

RECURSIVE quote(_)
quote(s) == IF Len(s) = 0 THEN <<>> ELSE quote_char(Head(s)) \o quote(Tail(s))

\* the URL of a call with its path segments escaped
EscapedUrl(c) ==
    LET e == [c EXCEPT !.project = quote(c.project),
                       !.repository = quote(c.repository),
                       !.path = quote(c.path)]
    IN CASE c.tool = "get_pull_requests" ->
                pull_requests_url(e.env, e.project, e.repository)
         [] c.tool = "get_pull_requests_changes" ->
                pull_requests_changes_url(e.env, e.project, e.repository,
                                          e.pull_request_id)
         [] c.tool = "get_file_diff" ->
                file_diff_url(e.env, e.project, e.repository, e.pull_request_id, e.path)

\* C8: the project key, the repository slug and the path are URL-encoded in the
\* requested URL.
C8_PathSegmentsEscaped ==
    request.t = "request" => request.url = EscapedUrl(call)

-----------------------------------------------------------------------------
(* C9 *)

\* position of the first occurrence of character c in s, or 0
FirstIndex(s, c) ==
    IF \E i \in 1..Len(s) : s[i] = c
    THEN CHOOSE i \in 1..Len(s) : s[i] = c /\ \A j \in 1..(i - 1) : s[j] # c
    ELSE 0

\* the query string of a URL: what follows its first "?"
QueryOf(url) ==
    LET q == FirstIndex(url, "?")
    IN IF q = 0 THEN <<>> ELSE SubSeq(url, q + 1, Len(url))

\* the "&"-separated parameters of a query string
RECURSIVE QueryParams(_)
QueryParams(query) ==
    LET a == FirstIndex(query, "&")
    IN IF a = 0 THEN {query}
       ELSE {SubSeq(query, 1, a - 1)} \cup QueryParams(SubSeq(query, a + 1, Len(query)))

HasParam(url, name, value) == (name \o <<"=">> \o value) \in QueryParams(QueryOf(url))

P_start == <<"s","t","a","r","t">>
P_limit == <<"l","i","m","i","t">>

\* C9: the URL get_pull_requests_changes requests carries start=0 and limit=99999, the
\* pagination parameters of get_pull_requests.
C9_ChangesPagination ==
    (request.t = "request" /\ call.tool = "get_pull_requests_changes") =>
        /\ HasParam(request.url, P_start, str(0))
        /\ HasParam(request.url, P_limit, str(99999))

-----------------------------------------------------------------------------
(* C10 *)

\* C10 as stated: at most 10 connections are in use, and an invocation queued for a
\* connection is never failed: it ends only after it has been given a connection.
C10_QueuedNeverFailed ==
    /\ Active(pool) <= 10
    /\ \A c \in Calls :
          (pool.calls[c].pc = "done" /\ pool.calls[c].queued) => pool.calls[c].sent

\* C10 amended: at most 10 connections are in use (and at most 10 exist, 5 of them
\* idle); an invocation is suspended only while all 10 are in use, and does not keep
\* any request in flight from completing; it ends either after its request went out
\* on a connection, with the tool's normal result, or, when its pool timeout expired
\* first, with the transport-error string and no request sent.
C10_BoundedPoolQueueOrTimeout ==
    /\ Active(pool) <= 10
    /\ Active(pool) + pool.idle <= 10
    /\ pool.idle <= 5
    /\ \A c \in Calls :
          /\ pool.calls[c].pc = "waiting" =>
                /\ Active(pool) = 10
                /\ pool.calls[c].queued /\ ~pool.calls[c].sent
                /\ \A d \in Calls : pool.calls[d].pc = "inflight" => ENABLED PoolRespond(d)
          /\ pool.calls[c].pc = "inflight" => pool.calls[c].sent
          /\ (pool.calls[c].pc = "done" /\ pool.calls[c].sent) =>
                (pool.calls[c].result.kind = "return"
                 /\ pool.calls[c].result.text = L_no_pull_requests)
          /\ (pool.calls[c].pc = "done" /\ ~pool.calls[c].sent) =>
                (pool.calls[c].queued
                 /\ pool.calls[c].result.kind = "return"
                 /\ pool.calls[c].result.text = L_err_fetching_prs)

\* an invocation was queued, was given a freed connection and has ended
C10_Witness ==
    \E c \in Calls :
        /\ pool.calls[c].pc = "done"
        /\ pool.calls[c].queued
        /\ pool.calls[c].sent
        /\ pool.calls[c].result.text = L_no_pull_requests
====
